---- MODULE Spec2Model ----
(***************************************************************************)
(* The buyback order lifecycle of sauls61708-source/BuyBacking.            *)
(*                                                                         *)
(* The repository holds several revisions of the same Cloud Functions      *)
(* backend.  Each revision is a complete program (its own express app and  *)
(* its own exports.api) working on the Firestore collection "orders":      *)
(*                                                                         *)
(*   revision A   src/functions/index.js, lines 1-655                      *)
(*                (re-offer with a deadline, buyer actions with a status   *)
(*                check, the autoAcceptOffers scheduler)                   *)
(*   revision C   src/unnamed/part_004                                     *)
(*                (PUT reoffer, Zendesk ticket id stored on the order,     *)
(*                buyer actions under /api, return label)                  *)
(*                                                                         *)
(* Spec is revision A, SpecC is revision C and SpecSeqC is revision C      *)
(* serving one request at a time.  SpecSubmit is the order submission of   *)
(* revision A with its order-number generator step by step.  LiveSpec and  *)
(* LiveSubmit add the fairness of the scheduler and of the generator.      *)
(* SpecSeq is the life of one order under revision A serving one request   *)
(* at a time, SpecOneReOffer is revision A with one re-offer made in all,  *)
(* and SpecBackend is src/swiftbuyback-backend/index.js, lines 1-370.      *)
(* SpecLabels, SpecOrderNumber and SpecOrderData apply functions of the    *)
(* code on their own: the label requests, the shape of the order number    *)
(* and the document a submission stores.                                   *)
(*                                                                         *)
(* A request handler is a process in a slot of procs: it takes one step    *)
(* per store operation or external call it awaits, so that handlers        *)
(* interleave as the awaits of the code allow.                             *)
(*                                                                         *)
(* Time is counted in units of half the auto-accept window (3.5 days).     *)
(* A Firestore server timestamp is a fresh value on every write: a         *)
(* timestamp field is modelled as {} (absent) or {k}, the k-th value       *)
(* written to that field.  Label URLs of the label provider likewise.      *)
(***************************************************************************)
EXTENDS Integers, FiniteSets, Sequences, TLC

\* ---------------------------------------------------------------- bounds
NumOrders == 3
NumProcs == 2
MaxTime == 3
MaxRequests == 5
\* the order numbers 10000..99999, scaled down
NumNumbers == 2
\* the orders the label functions are applied to
NumLabelled == 2

\* 7 * 24 * 60 * 60 * 1000 ms, in units of half a window
AutoAcceptWindow == 2

\* the factor of Math.random() in the order-number generator
RandomScale == 90000

Orders == 1..NumOrders
Procs == 1..NumProcs
OrderNumbers == 1..NumNumbers

\* ------------------------------------------------------------- variables
VARIABLES
    now,        \* Date.now() / Timestamp.now()
    orders,     \* the Firestore collection "orders"
    zendesk,    \* what the ticketing provider has received, per order
    shipengine, \* the label requests the label provider has received, per order
    call,       \* a function applied on its own: its input and what it returned
    procs,      \* the request handlers and scheduler runs in flight
    resp,       \* the response sent last: handler, order, HTTP status
    started     \* the number of requests and scheduler runs started so far

vars == <<now, orders, zendesk, shipengine, call, procs, resp, started>>

\* --------------------------------------------------------------- helpers
\* the next fresh value of a field that holds a server timestamp or a URL
Fresh(field) == IF field = {} THEN {1} ELSE {k + 1 : k \in field}

\* no function is applied on its own
NoCall == [fn |-> "none", input |-> {}, output |-> {}]

\* shippingInfo with every field missing
NoShippingInfo ==
    [fullName |-> "", streetAddress |-> "", city |-> "", state |-> "",
     zipCode |-> "", postalCode |-> ""]

NoOrder ==
    [exists |-> FALSE, customOrderId |-> {}, shippingInfo |-> NoShippingInfo,
     status |-> "none", reOffer |-> {},
     reofferDetails |-> FALSE,
     createdAt |-> {}, labelGeneratedAt |-> {},
     acceptedAt |-> {}, declinedAt |-> {}, returnRequestedAt |-> {},
     email |-> FALSE, zendeskTicketId |-> {},
     uspsLabelUrl |-> {}, trackingNumber |-> {},
     returnLabelUrl |-> {}, returnTrackingNumber |-> {}]

\* tickets opened for the buyer, internal tickets, comments appended to an
\* existing ticket; and the resolution notices among them, by kind
NoTraffic ==
    [tickets |-> 0, internal |-> 0, comments |-> 0,
     accepted |-> 0, declined |-> 0, auto |-> 0]

NoStage == [o \in Orders |-> "-"]

Idle ==
    [op |-> "idle", pc |-> "idle", id |-> 0, priceOk |-> FALSE,
     ticket |-> {}, number |-> {}, stage |-> NoStage]

\* a request arrives (or the scheduler fires) and is served in the free slot p
Begin(p) ==
    /\ procs[p].op = "idle"
    /\ started < MaxRequests
    /\ started' = started + 1

At(p, op, pc) == procs[p].op = op /\ procs[p].pc = pc

\* the handler of slot p goes on to its next await
Goto(p, op, pc, o) ==
    procs' = [procs EXCEPT ![p] = [Idle EXCEPT !.op = op, !.pc = pc, !.id = o]]

\* the handler of slot p sends its response and ends
Respond(p, op, o, code) ==
    /\ procs' = [procs EXCEPT ![p] = Idle]
    /\ resp' = [op |-> op, id |-> o, code |-> code]

\* request values
NewPriceInputs == {"positive", "negative", "string", "absent"}
ReasonsInputs == {"one", "empty"}
StatusInputs == {"re-offered-pending", "pending_shipment", "shipped", ""}

\* `!newPrice`
Falsy(newPrice) == newPrice \in {"absent", "zero"}
\* newPrice.toFixed exists
IsNumber(newPrice) == newPrice \in {"positive", "negative", "zero"}

\* orderData.reOffer.newPrice.toFixed(2) evaluates without a TypeError
PriceOk(order) == \E r \in order.reOffer : IsNumber(r.newPrice)

\* shippingInfo as src/create_orders.sh submits it
ZipShippingInfo ==
    [fullName |-> "Customer", streetAddress |-> "123 Main St",
     city |-> "Brooklyn", state |-> "NY", zipCode |-> "11223",
     postalCode |-> ""]

\* the body of POST /submit-order as the clients send it, with or without
\* shippingInfo.email; a field the body does not carry is {}
ClientOrderData(email) ==
    [shippingInfo |-> {ZipShippingInfo}, email |-> email,
     estimatedQuote |-> TRUE,
     status |-> {}, customOrderId |-> {}, createdAt |-> {}]

\* `...orderData`: the fields the body carries, as fields of the document
SpreadOrderData(orderData) ==
    [NoOrder EXCEPT
        !.exists = TRUE,
        !.shippingInfo = IF orderData.shippingInfo = {} THEN NoShippingInfo
                         ELSE CHOOSE si \in orderData.shippingInfo : TRUE,
        !.email = orderData.email,
        !.status = IF orderData.status = {} THEN "none"
                   ELSE CHOOSE status \in orderData.status : TRUE,
        !.customOrderId = orderData.customOrderId,
        !.createdAt = orderData.createdAt]

\* `!orderData?.shippingInfo || !orderData?.estimatedQuote`
InvalidOrderData(orderData) ==
    orderData.shippingInfo = {} \/ ~orderData.estimatedQuote

\* revision A, POST /submit-order: the document given to ordersCollection.add
SubmittedOrder(orderData, customOrderId) ==
    [SpreadOrderData(orderData) EXCEPT
        !.customOrderId = {customOrderId},
        !.createdAt = Fresh({}),
        !.status = "pending_shipment"]

\* revision C, POST /submit-order: the document given to ordersCollection.add
SubmittedOrderC(orderData) ==
    [SpreadOrderData(orderData) EXCEPT
        !.createdAt = Fresh({}),
        !.status = "pending_shipment"]

Init ==
    /\ now = 0
    /\ orders = [o \in Orders |-> NoOrder]
    /\ zendesk = [o \in Orders |-> NoTraffic]
    /\ shipengine = [o \in Orders |-> {}]
    /\ call = NoCall
    /\ procs = [p \in Procs |-> Idle]
    /\ resp = [op |-> "none", id |-> 0, code |-> 0]
    /\ started = 0

\* ------------------------------------------------------------ revision A

\* POST /submit-order
SubmitOrder(p) ==
    /\ Begin(p)
    /\ \E valid \in BOOLEAN :
         IF ~valid
         THEN /\ Respond(p, "SubmitOrder", 0, 400)
              /\ UNCHANGED <<now, call, shipengine, orders, zendesk>>
         ELSE /\ \E o \in Orders :
                   /\ ~orders[o].exists
                   /\ \A o2 \in Orders : o2 < o => orders[o2].exists
                   \* revision A never looks at shippingInfo.email; the
                   \* generator returns a number no stored order has
                   /\ orders' = [orders EXCEPT ![o] =
                          SubmittedOrder(ClientOrderData(TRUE), o)]
                   /\ Respond(p, "SubmitOrder", o, 201)
              /\ UNCHANGED <<now, call, shipengine, zendesk>>

\* POST /generate-label/:id
GenerateLabel(p) ==
    /\ Begin(p)
    /\ \E o \in Orders, labelOk \in BOOLEAN :
         IF ~orders[o].exists
         THEN /\ Respond(p, "GenerateLabel", o, 404)
              /\ UNCHANGED <<now, call, shipengine, orders, zendesk>>
         ELSE IF ~labelOk
         THEN /\ Respond(p, "GenerateLabel", o, 500)
              /\ UNCHANGED <<now, call, shipengine, orders, zendesk>>
         ELSE /\ orders' = [orders EXCEPT
                    ![o].status = "label_generated",
                    ![o].uspsLabelUrl = Fresh(orders[o].uspsLabelUrl),
                    ![o].trackingNumber = Fresh(orders[o].trackingNumber)]
              /\ Respond(p, "GenerateLabel", o, 200)
              /\ UNCHANGED <<now, call, shipengine, zendesk>>

\* an update that also drops the order number
StatusUpdatedWithoutNumber(order, status) ==
    [order EXCEPT !.status = status, !.customOrderId = {}]

\* PUT /orders/:id/status: the document after update({ status })
StatusUpdated(order, status) ==
    [order EXCEPT !.status = status]

\* PUT /orders/:id/status
UpdateStatus(p) ==
    /\ Begin(p)
    /\ \E o \in Orders, status \in StatusInputs :
         IF status = ""
         THEN /\ Respond(p, "UpdateStatus", o, 400)
              /\ UNCHANGED <<now, call, shipengine, orders, zendesk>>
         ELSE IF ~orders[o].exists
         THEN /\ Respond(p, "UpdateStatus", o, 500)
              /\ UNCHANGED <<now, call, shipengine, orders, zendesk>>
         ELSE /\ orders' = [orders EXCEPT ![o] = StatusUpdated(orders[o], status)]
              /\ Respond(p, "UpdateStatus", o, 200)
              /\ UNCHANGED <<now, call, shipengine, zendesk>>

\* POST /orders/:id/re-offer with the given body: validation, get, update
PostReOfferOf(p, o, newPrice, reasons) ==
    /\ Begin(p)
    /\ IF Falsy(newPrice) \/ reasons = "empty"
       THEN /\ Respond(p, "PostReOffer", o, 400)
            /\ UNCHANGED <<now, call, shipengine, orders, zendesk>>
       ELSE IF ~orders[o].exists
       THEN /\ Respond(p, "PostReOffer", o, 404)
            /\ UNCHANGED <<now, call, shipengine, orders, zendesk>>
       ELSE /\ orders' = [orders EXCEPT
                  ![o].reOffer = {[newPrice |-> newPrice,
                                   autoAcceptDate |-> now + AutoAcceptWindow]},
                  ![o].status = "re-offered-pending"]
            \* newPrice.toFixed(2) in the ticket body
            /\ IF IsNumber(newPrice)
               THEN Goto(p, "PostReOffer", "zendesk", o) /\ UNCHANGED resp
               ELSE Respond(p, "PostReOffer", o, 500)
            /\ UNCHANGED <<now, call, shipengine, zendesk>>

\* POST /orders/:id/re-offer
PostReOffer(p) ==
    \E o \in Orders, newPrice \in NewPriceInputs, reasons \in ReasonsInputs :
        PostReOfferOf(p, o, newPrice, reasons)

\* POST /orders/:id/re-offer: the ticket, its failure is logged only
PostReOfferZendesk(p) ==
    /\ At(p, "PostReOffer", "zendesk")
    /\ UNCHANGED started
    /\ LET o == procs[p].id IN
       \E sent \in BOOLEAN :
         /\ zendesk' = IF sent
                       THEN [zendesk EXCEPT ![o].tickets = @ + 1]
                       ELSE zendesk
         /\ Respond(p, "PostReOffer", o, 200)
         /\ UNCHANGED <<now, call, shipengine, orders>>

\* an update that stores the return label in the fields of the outbound one
ReturnLabelUpdateShared(order) ==
    [order EXCEPT
        !.status = "return-label-generated",
        !.uspsLabelUrl = Fresh(order.returnLabelUrl),
        !.trackingNumber = Fresh(order.returnTrackingNumber),
        !.returnLabelUrl = Fresh(order.returnLabelUrl),
        !.returnTrackingNumber = Fresh(order.returnTrackingNumber)]

\* POST /orders/:id/return-label: the document after orderRef.update
ReturnLabelUpdate(order) ==
    [order EXCEPT
        !.status = "return-label-generated",
        !.returnLabelUrl = Fresh(order.returnLabelUrl),
        !.returnTrackingNumber = Fresh(order.returnTrackingNumber)]

\* POST /orders/:id/return-label
ReturnLabel(p) ==
    /\ Begin(p)
    /\ \E o \in Orders, labelOk \in BOOLEAN, mailOk \in BOOLEAN :
         IF ~orders[o].exists
         THEN /\ Respond(p, "ReturnLabel", o, 404)
              /\ UNCHANGED <<now, call, shipengine, orders, zendesk>>
         ELSE IF ~labelOk
         THEN /\ Respond(p, "ReturnLabel", o, 500)
              /\ UNCHANGED <<now, call, shipengine, orders, zendesk>>
         ELSE /\ orders' = [orders EXCEPT ![o] = ReturnLabelUpdate(orders[o])]
              \* transporter.sendMail is awaited outside any inner try
              /\ Respond(p, "ReturnLabel", o, IF mailOk THEN 200 ELSE 500)
              /\ UNCHANGED <<now, call, shipengine, zendesk>>

\* a public comment of revision A: one more POST to /tickets.json
Notice(o, kind, sent) ==
    zendesk' = IF sent
               THEN [zendesk EXCEPT ![o].tickets = @ + 1, ![o][kind] = @ + 1]
               ELSE zendesk

\* POST /accept-offer-action: get the order and check its status
AcceptOfferAction(p) ==
    /\ Begin(p)
    /\ \E o \in Orders \cup {0} :
         /\ IF o = 0
            THEN Respond(p, "AcceptOfferAction", o, 400)
            ELSE IF ~orders[o].exists
            THEN Respond(p, "AcceptOfferAction", o, 404)
            ELSE IF orders[o].status # "re-offered-pending"
            THEN Respond(p, "AcceptOfferAction", o, 409)
            ELSE /\ procs' = [procs EXCEPT ![p] =
                       [Idle EXCEPT !.op = "AcceptOfferAction", !.pc = "update",
                                    !.id = o, !.priceOk = PriceOk(orders[o])]]
                 /\ UNCHANGED resp
         /\ UNCHANGED <<now, call, shipengine, orders, zendesk>>

\* an update that also drops the re-offer with its deadline
AcceptedOrderWithoutOffer(order) ==
    [order EXCEPT
        !.status = "re-offered-accepted",
        !.reOffer = {},
        !.acceptedAt = Fresh(order.acceptedAt)]

\* POST /accept-offer-action: the document after docRef.update
AcceptedOrder(order) ==
    [order EXCEPT
        !.status = "re-offered-accepted",
        !.acceptedAt = Fresh(order.acceptedAt)]

\* POST /accept-offer-action: docRef.update, then the comment body is built
AcceptOfferActionUpdate(p) ==
    /\ At(p, "AcceptOfferAction", "update")
    /\ UNCHANGED started
    /\ LET o == procs[p].id IN
         /\ orders' = [orders EXCEPT ![o] = AcceptedOrder(orders[o])]
         /\ IF procs[p].priceOk
            THEN Goto(p, "AcceptOfferAction", "zendesk", o) /\ UNCHANGED resp
            ELSE Respond(p, "AcceptOfferAction", o, 500)
         /\ UNCHANGED <<now, call, shipengine, zendesk>>

\* POST /accept-offer-action: the comment, its failure is logged only
AcceptOfferActionZendesk(p) ==
    /\ At(p, "AcceptOfferAction", "zendesk")
    /\ UNCHANGED started
    /\ LET o == procs[p].id IN
       \E sent \in BOOLEAN :
         /\ Notice(o, "accepted", sent)
         /\ Respond(p, "AcceptOfferAction", o, 200)
         /\ UNCHANGED <<now, call, shipengine, orders>>

\* POST /return-phone-action: get the order and check its status
ReturnPhoneAction(p) ==
    /\ Begin(p)
    /\ \E o \in Orders \cup {0} :
         /\ IF o = 0
            THEN Respond(p, "ReturnPhoneAction", o, 400)
            ELSE IF ~orders[o].exists
            THEN Respond(p, "ReturnPhoneAction", o, 404)
            ELSE IF orders[o].status # "re-offered-pending"
            THEN Respond(p, "ReturnPhoneAction", o, 409)
            ELSE Goto(p, "ReturnPhoneAction", "update", o) /\ UNCHANGED resp
         /\ UNCHANGED <<now, call, shipengine, orders, zendesk>>

\* an update that records the decline and leaves the status as it is
DeclinedOrderStillPending(order) ==
    [order EXCEPT !.declinedAt = Fresh(order.declinedAt)]

\* POST /return-phone-action: the document after docRef.update
DeclinedOrder(order) ==
    [order EXCEPT
        !.status = "re-offered-declined",
        !.declinedAt = Fresh(order.declinedAt)]

\* POST /return-phone-action: docRef.update
ReturnPhoneActionUpdate(p) ==
    /\ At(p, "ReturnPhoneAction", "update")
    /\ UNCHANGED started
    /\ LET o == procs[p].id IN
         /\ orders' = [orders EXCEPT ![o] = DeclinedOrder(orders[o])]
         /\ Goto(p, "ReturnPhoneAction", "zendesk", o)
         /\ UNCHANGED <<now, call, shipengine, zendesk, resp>>

\* POST /return-phone-action: the comment, its failure is logged only
ReturnPhoneActionZendesk(p) ==
    /\ At(p, "ReturnPhoneAction", "zendesk")
    /\ UNCHANGED started
    /\ LET o == procs[p].id IN
       \E sent \in BOOLEAN :
         /\ Notice(o, "declined", sent)
         /\ Respond(p, "ReturnPhoneAction", o, 200)
         /\ UNCHANGED <<now, call, shipengine, orders>>

\* the query of autoAcceptOffers
ExpiredOffers ==
    {o \in Orders :
        /\ orders[o].exists
        /\ orders[o].status = "re-offered-pending"
        /\ \E r \in orders[o].reOffer : r.autoAcceptDate <= now}

\* autoAcceptOffers: the query, and the synchronous start of every callback
\* of expiredOffers.docs.map (building the comment body throws a TypeError
\* when reOffer.newPrice has no toFixed)
autoAcceptQuery(p) ==
    /\ procs' = [procs EXCEPT ![p] =
          [Idle EXCEPT !.op = "autoAcceptOffers", !.pc = "map",
                       !.stage = [o \in Orders |->
                                    IF o \notin ExpiredOffers THEN "-"
                                    ELSE IF PriceOk(orders[o]) THEN "zendesk"
                                    ELSE "failed"]]]
    /\ UNCHANGED <<now, call, shipengine, orders, zendesk, resp>>

\* a run of autoAcceptOffers
autoAcceptOffers(p) ==
    /\ Begin(p)
    /\ autoAcceptQuery(p)

\* autoAcceptOffers: the comment of one document, its failure is logged only
autoAcceptZendesk(p, o) ==
    /\ At(p, "autoAcceptOffers", "map")
    /\ UNCHANGED started
    /\ procs[p].stage[o] = "zendesk"
    /\ \E sent \in BOOLEAN : Notice(o, "auto", sent)
    /\ procs' = [procs EXCEPT ![p].stage[o] = "update"]
    /\ UNCHANGED <<now, call, shipengine, orders, resp>>

\* autoAcceptOffers: orderRef.update of one document
autoAcceptUpdate(p, o) ==
    /\ At(p, "autoAcceptOffers", "map")
    /\ UNCHANGED started
    /\ procs[p].stage[o] = "update"
    /\ IF orders[o].exists
       THEN orders' = [orders EXCEPT
               ![o].status = "re-offered-auto-accepted",
               ![o].acceptedAt = Fresh(orders[o].acceptedAt)]
       ELSE UNCHANGED orders
    /\ procs' = [procs EXCEPT ![p].stage[o] = "done"]
    /\ UNCHANGED <<now, call, shipengine, zendesk, resp>>

\* autoAcceptOffers: Promise.all settles, the run ends.  It rejects as soon
\* as one callback has thrown; what the other callbacks still do after the
\* function has ended is not guaranteed.
autoAcceptEnd(p) ==
    /\ At(p, "autoAcceptOffers", "map")
    /\ UNCHANGED started
    /\ \/ \A o \in Orders : procs[p].stage[o] \in {"-", "done"}
       \/ \E o \in Orders : procs[p].stage[o] = "failed"
    /\ procs' = [procs EXCEPT ![p] = Idle]
    /\ UNCHANGED <<now, call, shipengine, orders, zendesk, resp>>

Tick ==
    /\ now < MaxTime
    /\ now' = now + 1
    /\ UNCHANGED <<orders, zendesk, shipengine, call, procs, resp, started>>

\* revision A
Next ==
    \/ \E p \in Procs : SubmitOrder(p)
    \/ \E p \in Procs : GenerateLabel(p)
    \/ \E p \in Procs : UpdateStatus(p)
    \/ \E p \in Procs : PostReOffer(p)
    \/ \E p \in Procs : PostReOfferZendesk(p)
    \/ \E p \in Procs : ReturnLabel(p)
    \/ \E p \in Procs : AcceptOfferAction(p)
    \/ \E p \in Procs : AcceptOfferActionUpdate(p)
    \/ \E p \in Procs : AcceptOfferActionZendesk(p)
    \/ \E p \in Procs : ReturnPhoneAction(p)
    \/ \E p \in Procs : ReturnPhoneActionUpdate(p)
    \/ \E p \in Procs : ReturnPhoneActionZendesk(p)
    \/ \E p \in Procs : autoAcceptOffers(p)
    \/ \E p \in Procs, o \in Orders : autoAcceptZendesk(p, o)
    \/ \E p \in Procs, o \in Orders : autoAcceptUpdate(p, o)
    \/ \E p \in Procs : autoAcceptEnd(p)
    \/ Tick

Spec == Init /\ [][Next]_vars

\* no handler is in flight
Alone == \A p \in Procs : procs[p].op = "idle"

\* no order has been submitted
NoOrders == \A o \in Orders : ~orders[o].exists

\* no handler is in flight, and the next request is served in the first slot
First(p) == Alone /\ p = 1

\* the life of one order under revision A serving one request at a time: one
\* order is submitted, a request or a scheduler run is taken up only when no
\* handler is in flight, and time passes between them (a request addressed
\* to another id finds no order)
NextSeq ==
    \/ \E p \in Procs : First(p) /\ NoOrders /\ SubmitOrder(p)
    \/ \E p \in Procs : First(p) /\ GenerateLabel(p)
    \/ \E p \in Procs : First(p) /\ UpdateStatus(p)
    \/ \E p \in Procs : First(p) /\ PostReOffer(p)
    \/ \E p \in Procs : PostReOfferZendesk(p)
    \/ \E p \in Procs : First(p) /\ ReturnLabel(p)
    \/ \E p \in Procs : First(p) /\ AcceptOfferAction(p)
    \/ \E p \in Procs : AcceptOfferActionUpdate(p)
    \/ \E p \in Procs : AcceptOfferActionZendesk(p)
    \/ \E p \in Procs : First(p) /\ ReturnPhoneAction(p)
    \/ \E p \in Procs : ReturnPhoneActionUpdate(p)
    \/ \E p \in Procs : ReturnPhoneActionZendesk(p)
    \/ \E p \in Procs : First(p) /\ autoAcceptOffers(p)
    \/ \E p \in Procs, o \in Orders : autoAcceptZendesk(p, o)
    \/ \E p \in Procs, o \in Orders : autoAcceptUpdate(p, o)
    \/ \E p \in Procs : autoAcceptEnd(p)
    \/ Alone /\ Tick

SpecSeq == Init /\ [][NextSeq]_vars

\* The no-response scenario of revision A: an order is submitted and
\* re-offered once, the buyer and the admin send nothing more, the schedule
\* ('every 24 hours') fires without end and time passes.

\* the only re-offer, early enough for its deadline to lie within MaxTime
FirstReOffer(p) ==
    \E o \in Orders, newPrice \in NewPriceInputs, reasons \in ReasonsInputs :
        /\ \A o2 \in Orders : orders[o2].reOffer = {}
        /\ now + AutoAcceptWindow <= MaxTime
        /\ PostReOfferOf(p, o, newPrice, reasons)

\* the schedule fires
Scheduled(p) ==
    /\ procs[p].op = "idle"
    /\ UNCHANGED started
    /\ autoAcceptQuery(p)

NextNoResponse ==
    \/ \E p \in Procs : SubmitOrder(p)
    \/ \E p \in Procs : FirstReOffer(p)
    \/ \E p \in Procs : PostReOfferZendesk(p)
    \/ \E p \in Procs : Scheduled(p)
    \/ \E p \in Procs, o \in Orders : autoAcceptZendesk(p, o)
    \/ \E p \in Procs, o \in Orders : autoAcceptUpdate(p, o)
    \/ \E p \in Procs : autoAcceptEnd(p)
    \/ Tick

\* the schedule keeps firing, what has started goes on, time passes
LiveSpec ==
    /\ Init
    /\ [][NextNoResponse]_vars
    /\ WF_vars(Tick)
    /\ \A p \in Procs :
         /\ WF_vars(PostReOfferZendesk(p))
         /\ WF_vars(Scheduled(p))
         /\ WF_vars(autoAcceptEnd(p))
         /\ \A o \in Orders : WF_vars(autoAcceptZendesk(p, o))
         /\ \A o \in Orders : WF_vars(autoAcceptUpdate(p, o))

\* revision A with the buyer, the admin and the scheduler all acting, and
\* one re-offer made in all: what follows it resolves that re-offer
NextOneReOffer ==
    \/ \E p \in Procs : SubmitOrder(p)
    \/ \E p \in Procs : GenerateLabel(p)
    \/ \E p \in Procs : UpdateStatus(p)
    \/ \E p \in Procs : FirstReOffer(p)
    \/ \E p \in Procs : PostReOfferZendesk(p)
    \/ \E p \in Procs : ReturnLabel(p)
    \/ \E p \in Procs : AcceptOfferAction(p)
    \/ \E p \in Procs : AcceptOfferActionUpdate(p)
    \/ \E p \in Procs : AcceptOfferActionZendesk(p)
    \/ \E p \in Procs : ReturnPhoneAction(p)
    \/ \E p \in Procs : ReturnPhoneActionUpdate(p)
    \/ \E p \in Procs : ReturnPhoneActionZendesk(p)
    \/ \E p \in Procs : autoAcceptOffers(p)
    \/ \E p \in Procs, o \in Orders : autoAcceptZendesk(p, o)
    \/ \E p \in Procs, o \in Orders : autoAcceptUpdate(p, o)
    \/ \E p \in Procs : autoAcceptEnd(p)
    \/ Tick

SpecOneReOffer == Init /\ [][NextOneReOffer]_vars

\* ------------------------------------- revision A, the order number
\* POST /submit-order with generateUniqueFiveDigitOrderNumber step by step.
\* (SubmitOrder above is the same handler in one step, for the
\* specifications in which the order number plays no part.)

Stored == {o \in Orders : orders[o].exists}
Submitting == {p \in Procs : procs[p].op = "SubmitOrderNumbered"}

\* an order with this customOrderId exists: the snapshot is not empty
NumberTaken(n) == \E o \in Stored : orders[o].customOrderId = {n}

\* POST /submit-order: validation, the first Math.random() of the generator
SubmitOrderNumbered(p) ==
    /\ Begin(p)
    \* every submission in flight has room in Orders for its document
    /\ Cardinality(Stored) + Cardinality(Submitting) < NumOrders
    /\ \E valid \in BOOLEAN :
         IF ~valid
         THEN /\ Respond(p, "SubmitOrderNumbered", 0, 400)
              /\ UNCHANGED <<now, call, shipengine, orders, zendesk>>
         ELSE /\ \E num \in OrderNumbers :
                   procs' = [procs EXCEPT ![p] =
                      [Idle EXCEPT !.op = "SubmitOrderNumbered", !.pc = "query",
                                   !.number = {num}]]
              /\ UNCHANGED <<now, call, shipengine, orders, zendesk, resp>>

\* one turn of `while (!unique)`: the query for the number drawn, and the
\* next Math.random() when the snapshot is not empty.  A query that throws
\* ends the handler in its catch.
generateUniqueFiveDigitOrderNumber(p) ==
    /\ At(p, "SubmitOrderNumbered", "query")
    /\ UNCHANGED started
    /\ \E storeOk \in BOOLEAN :
         IF ~storeOk
         THEN /\ Respond(p, "SubmitOrderNumbered", 0, 500)
              /\ UNCHANGED <<now, call, shipengine, orders, zendesk>>
         ELSE /\ IF \E n \in procs[p].number : NumberTaken(n)
                 THEN \E num \in OrderNumbers :
                         procs' = [procs EXCEPT ![p].number = {num}]
                 ELSE procs' = [procs EXCEPT ![p].pc = "add"]
              /\ UNCHANGED <<now, call, shipengine, orders, zendesk, resp>>

\* POST /submit-order: ordersCollection.add with the number returned
SubmitOrderAdd(p) ==
    /\ At(p, "SubmitOrderNumbered", "add")
    /\ UNCHANGED started
    /\ \E o \in Orders :
         /\ ~orders[o].exists
         /\ \A o2 \in Orders : o2 < o => orders[o2].exists
         /\ orders' = [orders EXCEPT ![o] =
                SubmittedOrder(ClientOrderData(TRUE),
                               CHOOSE n \in procs[p].number : TRUE)]
         /\ Respond(p, "SubmitOrderNumbered", o, 201)
    /\ UNCHANGED <<now, call, shipengine, zendesk>>

NextSubmit ==
    \/ \E p \in Procs : SubmitOrderNumbered(p)
    \/ \E p \in Procs : generateUniqueFiveDigitOrderNumber(p)
    \/ \E p \in Procs : SubmitOrderAdd(p)

\* submissions only
SpecSubmit == Init /\ [][NextSubmit]_vars

\* Math.random() draws a number that is free
DrawsFree(p) ==
    /\ generateUniqueFiveDigitOrderNumber(p)
    /\ procs'[p].pc = "query"
    /\ \E n \in procs'[p].number : ~NumberTaken(n)

\* submissions, where a handler that has started goes on and Math.random()
\* does not avoid the free numbers for ever
LiveSubmit ==
    /\ Init
    /\ [][NextSubmit]_vars
    /\ \A p \in Procs :
         /\ WF_vars(generateUniqueFiveDigitOrderNumber(p))
         /\ WF_vars(SubmitOrderAdd(p))
         /\ SF_vars(DrawsFree(p))

\* ------------------------------- the shape of the order number
\* One turn of the generator on its own: the number it draws and the string
\* it makes of it.  (The generator above draws from the scaled-down
\* OrderNumbers; here the draw is the code's.)

\* Math.random() * 90000 lies in [0, 90000); its integer part
RandomInputs == 0..(RandomScale - 1)

\* a draw that starts from 0
DrawnNumberFromZero(x) == x

\* Math.floor(10000 + Math.random() * 90000), x the integer part of the
\* product
DrawnNumber(x) == 10000 + x

DecimalDigits == <<"0", "1", "2", "3", "4", "5", "6", "7", "8", "9">>

\* String(num) of a non-negative integer, as the sequence of its characters
RECURSIVE String(_)
String(num) ==
    IF num < 10
    THEN <<DecimalDigits[num + 1]>>
    ELSE Append(String(num \div 10), DecimalDigits[(num % 10) + 1])

\* str.substring(start, end) for 0 <= start <= end
substring(str, start, end) ==
    SubSeq(str, (IF start > Len(str) THEN Len(str) ELSE start) + 1,
                IF end > Len(str) THEN Len(str) ELSE end)

\* `${firstPart}-${secondPart}`
FormatOrderNumber(num) ==
    substring(String(num), 0, 2) \o <<"-">> \o substring(String(num), 2, 5)

InitOrderNumber ==
    /\ now = 0
    /\ orders = [o \in Orders |-> NoOrder]
    /\ zendesk = [o \in Orders |-> NoTraffic]
    /\ shipengine = [o \in Orders |-> {}]
    /\ \E x \in RandomInputs :
         call = [fn |-> "generateUniqueFiveDigitOrderNumber",
                 input |-> {x}, output |-> {}]
    /\ procs = [p \in Procs |-> Idle]
    /\ resp = [op |-> "none", id |-> 0, code |-> 0]
    /\ started = 0

\* the body of `while (!unique)` up to the query
OrderNumberDrawn ==
    /\ call.output = {}
    /\ call' = [call EXCEPT
                  !.output = {FormatOrderNumber(DrawnNumber(x)) : x \in call.input}]
    /\ UNCHANGED <<now, orders, zendesk, shipengine, procs, resp, started>>

NextOrderNumber == OrderNumberDrawn

SpecOrderNumber == InitOrderNumber /\ [][NextOrderNumber]_vars

\* ------------------------------------- the document of a submission
\* The document POST /submit-order stores, of revision A and of revision C,
\* for every body a client can send.

\* a value that comes from the client, unlike any the server assigns
ClientValue == 0

OrderDataInputs ==
    [shippingInfo : {{}} \cup {{si} : si \in {ZipShippingInfo, NoShippingInfo}},
     email : BOOLEAN,
     estimatedQuote : BOOLEAN,
     status : {{}, {"shipped"}},
     customOrderId : {{}, {ClientValue}},
     createdAt : {{}, {ClientValue}}]

InitOrderData ==
    /\ now = 0
    /\ orders = [o \in Orders |-> NoOrder]
    /\ zendesk = [o \in Orders |-> NoTraffic]
    /\ shipengine = [o \in Orders |-> {}]
    /\ \E fn \in {"SubmittedOrder", "SubmittedOrderC"},
          orderData \in OrderDataInputs :
         call = [fn |-> fn, input |-> {orderData}, output |-> {}]
    /\ procs = [p \in Procs |-> Idle]
    /\ resp = [op |-> "none", id |-> 0, code |-> 0]
    /\ started = 0

\* the handler's answer and the document it has stored
Answer(code, document) == [code |-> code, document |-> document]

\* revision A, POST /submit-order applied to the body
SubmitOrderData ==
    /\ call.fn = "SubmittedOrder"
    /\ call.output = {}
    /\ \E orderData \in call.input, customOrderId \in OrderNumbers :
         call' = [call EXCEPT !.output =
                    IF InvalidOrderData(orderData)
                    THEN {Answer(400, NoOrder)}
                    ELSE {Answer(201, SubmittedOrder(orderData, customOrderId))}]
    /\ UNCHANGED <<now, orders, zendesk, shipengine, procs, resp, started>>

\* revision C, POST /submit-order applied to the body
SubmitOrderDataC ==
    /\ call.fn = "SubmittedOrderC"
    /\ call.output = {}
    /\ \E orderData \in call.input :
         call' = [call EXCEPT !.output =
                    IF InvalidOrderData(orderData)
                    THEN {Answer(400, NoOrder)}
                    ELSE {Answer(201, SubmittedOrderC(orderData))}]
    /\ UNCHANGED <<now, orders, zendesk, shipengine, procs, resp, started>>

NextOrderData ==
    \/ SubmitOrderData
    \/ SubmitOrderDataC

SpecOrderData == InitOrderData /\ [][NextOrderData]_vars

\* ------------------------------------------------ the label functions
\* The functions that build the request to the label provider, of revision
\* A and of revision C, applied to a population of submitted orders.  (The
\* handlers above call them; there the outcome of the call is all that
\* matters.)

\* request values: shippingInfo as the clients send it, the same with the
\* postal code under the name postalCode, and with the city left out
ShippingInputs ==
    {ZipShippingInfo,
     [ZipShippingInfo EXCEPT !.zipCode = "", !.postalCode = "11223"],
     [ZipShippingInfo EXCEPT !.city = ""]}

\* the orders the label functions are applied to
Labelled == 1..NumLabelled

\* orders as POST /submit-order has stored them
InitLabels ==
    /\ now = 0
    /\ \E info \in [Labelled -> ShippingInputs] :
         orders = [o \in Orders |->
                      IF o \in Labelled
                      THEN [SubmittedOrder(ClientOrderData(TRUE), o)
                              EXCEPT !.shippingInfo = info[o]]
                      ELSE NoOrder]
    /\ zendesk = [o \in Orders |-> NoTraffic]
    /\ shipengine = [o \in Orders |-> {}]
    /\ call = NoCall
    /\ procs = [p \in Procs |-> Idle]
    /\ resp = [op |-> "none", id |-> 0, code |-> 0]
    /\ started = 0

\* revision A: swiftBuyBackAddress and buyerAddress
swiftBuyBackAddress ==
    [name |-> "SwiftBuyBack Returns", address_line1 |-> "1795 West 3rd St",
     city_locality |-> "Brooklyn", state_province |-> "NY",
     postal_code |-> "11223"]

buyerAddress(buyerShippingInfo) ==
    [name |-> buyerShippingInfo.fullName,
     address_line1 |-> buyerShippingInfo.streetAddress,
     city_locality |-> buyerShippingInfo.city,
     state_province |-> buyerShippingInfo.state,
     postal_code |-> buyerShippingInfo.zipCode]

\* revision A: the payload of createShipStationLabel
ShipStationPayload(order, isReturnLabel) ==
    IF isReturnLabel
    THEN [fn |-> "createShipStationLabel", return |-> TRUE,
          ship_from |-> swiftBuyBackAddress,
          ship_to |-> buyerAddress(order.shippingInfo)]
    ELSE [fn |-> "createShipStationLabel", return |-> FALSE,
          ship_from |-> buyerAddress(order.shippingInfo),
          ship_to |-> swiftBuyBackAddress]

\* the provider takes the request and answers, or the call fails
PostLabel(o, fn, payload) ==
    /\ shipengine' = [shipengine EXCEPT ![o] = @ \cup {payload}]
    /\ \E ok \in BOOLEAN :
         resp' = [op |-> fn, id |-> o, code |-> IF ok THEN 200 ELSE 500]

\* the function throws before it calls the provider
ThrowsBeforePost(o, fn) ==
    /\ resp' = [op |-> fn, id |-> o, code |-> 500]
    /\ UNCHANGED shipengine

\* revision A: createShipStationLabel(order, isReturnLabel)
createShipStationLabel(o, isReturnLabel) ==
    /\ PostLabel(o, "createShipStationLabel",
                 ShipStationPayload(orders[o], isReturnLabel))
    /\ UNCHANGED <<now, call, orders, zendesk, procs, started>>

\* revision C: the validation at the head of createShipmentAndLabel and of
\* createReturnLabel
MissingShippingInfo(shippingInfo) ==
    \/ shippingInfo.fullName = ""
    \/ shippingInfo.streetAddress = ""
    \/ shippingInfo.city = ""
    \/ shippingInfo.state = ""
    \/ shippingInfo.postalCode = ""

\* revision C: the two parties of shipmentData
BusinessParty ==
    [name |-> "SwiftBuyBack", addressLine1 |-> "1795 west 3rd st",
     cityLocality |-> "Anytown", stateProvince |-> "CA",
     postalCode |-> "90210"]

CustomerParty(shippingInfo) ==
    [name |-> shippingInfo.fullName,
     addressLine1 |-> shippingInfo.streetAddress,
     cityLocality |-> shippingInfo.city,
     stateProvince |-> shippingInfo.state,
     postalCode |-> shippingInfo.postalCode]

\* revision C: shipmentData of createShipmentAndLabel
ShipmentData(order) ==
    [fn |-> "createShipmentAndLabel", return |-> FALSE,
     ship_from |-> CustomerParty(order.shippingInfo),
     ship_to |-> BusinessParty]

\* a return request that keeps the direction of the outbound one
ReturnShipmentDataOutbound(order) ==
    [fn |-> "createReturnLabel", return |-> TRUE,
     ship_from |-> CustomerParty(order.shippingInfo),
     ship_to |-> BusinessParty]

\* revision C: shipmentData of createReturnLabel
ReturnShipmentData(order) ==
    [fn |-> "createReturnLabel", return |-> TRUE,
     ship_from |-> BusinessParty,
     ship_to |-> CustomerParty(order.shippingInfo)]

\* revision C: createShipmentAndLabel(orderId, orderDetails)
createShipmentAndLabel(o) ==
    /\ IF MissingShippingInfo(orders[o].shippingInfo)
       THEN ThrowsBeforePost(o, "createShipmentAndLabel")
       ELSE PostLabel(o, "createShipmentAndLabel", ShipmentData(orders[o]))
    /\ UNCHANGED <<now, call, orders, zendesk, procs, started>>

\* revision C: createReturnLabel(orderId, orderDetails)
createReturnLabel(o) ==
    /\ IF MissingShippingInfo(orders[o].shippingInfo)
       THEN ThrowsBeforePost(o, "createReturnLabel")
       ELSE PostLabel(o, "createReturnLabel", ReturnShipmentData(orders[o]))
    /\ UNCHANGED <<now, call, orders, zendesk, procs, started>>

NextLabels ==
    \/ \E o \in Labelled, isReturnLabel \in BOOLEAN :
          createShipStationLabel(o, isReturnLabel)
    \/ \E o \in Labelled : createShipmentAndLabel(o)
    \/ \E o \in Labelled : createReturnLabel(o)

SpecLabels == InitLabels /\ [][NextLabels]_vars

\* ------------------------------------------------------------ revision C

\* the id Zendesk gives to the next ticket
RECURSIVE TicketsOpened(_)
TicketsOpened(S) ==
    IF S = {} THEN 0
    ELSE LET o == CHOOSE x \in S : TRUE
         IN zendesk[o].tickets + zendesk[o].internal + TicketsOpened(S \ {o})

NewTicketId == TicketsOpened(Orders) + 1

\* POST /submit-order
SubmitOrderC(p) ==
    /\ Begin(p)
    /\ \E valid \in BOOLEAN, email \in BOOLEAN :
         IF ~valid
         THEN /\ Respond(p, "SubmitOrderC", 0, 400)
              /\ UNCHANGED <<now, call, shipengine, orders, zendesk>>
         ELSE /\ \E o \in Orders :
                   /\ ~orders[o].exists
                   /\ \A o2 \in Orders : o2 < o => orders[o2].exists
                   /\ orders' = [orders EXCEPT ![o] =
                          SubmittedOrderC(ClientOrderData(email))]
                   /\ Respond(p, "SubmitOrderC", o, 201)
              /\ UNCHANGED <<now, call, shipengine, zendesk>>

\* PUT /orders/:id/reoffer: validation, get, update
PutReoffer(p) ==
    /\ Begin(p)
    /\ \E o \in Orders, newPrice \in NewPriceInputs, reason \in BOOLEAN :
         IF Falsy(newPrice) \/ ~reason
         THEN /\ Respond(p, "PutReoffer", o, 400)
              /\ UNCHANGED <<now, call, shipengine, orders, zendesk>>
         ELSE IF ~orders[o].exists
         THEN /\ Respond(p, "PutReoffer", o, 404)
              /\ UNCHANGED <<now, call, shipengine, orders, zendesk>>
         ELSE /\ orders' = [orders EXCEPT
                    ![o].status = "re-offered",
                    ![o].reofferDetails = TRUE]
              /\ Goto(p, "PutReoffer", "internal", o)
              /\ UNCHANGED <<now, call, shipengine, zendesk, resp>>

\* PUT /orders/:id/reoffer: createZendeskInternalTicket
PutReofferInternal(p) ==
    /\ At(p, "PutReoffer", "internal")
    /\ UNCHANGED started
    /\ LET o == procs[p].id IN
       \E sent \in BOOLEAN :
         IF ~sent
         THEN /\ Respond(p, "PutReoffer", o, 500)
              /\ UNCHANGED <<now, call, shipengine, orders, zendesk>>
         ELSE /\ zendesk' = [zendesk EXCEPT ![o].internal = @ + 1]
              /\ IF orders[o].email
                 THEN Goto(p, "PutReoffer", "ticket", o) /\ UNCHANGED resp
                 ELSE Respond(p, "PutReoffer", o, 200)
              /\ UNCHANGED <<now, call, shipengine, orders>>

\* sendBuyerReofferEmailViaZendesk: a new ticket for the buyer
PutReofferTicket(p) ==
    /\ At(p, "PutReoffer", "ticket")
    /\ UNCHANGED started
    /\ LET o == procs[p].id IN
       \E sent \in BOOLEAN :
         IF ~sent
         THEN /\ Respond(p, "PutReoffer", o, 500)
              /\ UNCHANGED <<now, call, shipengine, orders, zendesk>>
         ELSE /\ zendesk' = [zendesk EXCEPT ![o].tickets = @ + 1]
              /\ procs' = [procs EXCEPT ![p].pc = "store",
                                        ![p].ticket = {NewTicketId}]
              /\ UNCHANGED <<now, call, shipengine, orders, resp>>

\* sendBuyerReofferEmailViaZendesk: the ticket id is stored on the order
PutReofferStore(p) ==
    /\ At(p, "PutReoffer", "store")
    /\ UNCHANGED started
    /\ LET o == procs[p].id IN
         /\ orders' = [orders EXCEPT ![o].zendeskTicketId = procs[p].ticket]
         /\ Respond(p, "PutReoffer", o, 200)
         /\ UNCHANGED <<now, call, shipengine, zendesk>>

\* POST /orders/:id/send-custom-email: validation, get
SendCustomEmail(p) ==
    /\ Begin(p)
    /\ \E o \in Orders, valid \in BOOLEAN :
         /\ IF ~valid
            THEN Respond(p, "SendCustomEmail", o, 400)
            ELSE IF ~orders[o].exists
            THEN Respond(p, "SendCustomEmail", o, 404)
            ELSE IF ~orders[o].email
            THEN Respond(p, "SendCustomEmail", o, 400)
            ELSE /\ procs' = [procs EXCEPT ![p] =
                       [Idle EXCEPT !.op = "SendCustomEmail", !.pc = "zendesk",
                                    !.id = o,
                                    !.ticket = orders[o].zendeskTicketId]]
                 /\ UNCHANGED resp
         /\ UNCHANGED <<now, call, shipengine, orders, zendesk>>

\* a handler that never looks for a ticket on the order, as the
\* send-custom-email of the earlier revision (src/functions/index.js:1038)
ExistingTicketAlwaysNew(p) == {}

\* the ticket id the handler of SendCustomEmail goes on with: the one it
\* found on the order
ExistingTicket(p) == procs[p].ticket

\* POST /orders/:id/send-custom-email: addCommentToZendeskTicket on the
\* ticket of the order, or sendCustomEmailViaZendesk when it has none
SendCustomEmailZendesk(p) ==
    /\ At(p, "SendCustomEmail", "zendesk")
    /\ UNCHANGED started
    /\ LET o == procs[p].id IN
       \E sent \in BOOLEAN :
         IF ~sent
         THEN /\ Respond(p, "SendCustomEmail", o, 500)
              /\ UNCHANGED <<now, call, shipengine, orders, zendesk>>
         ELSE IF ExistingTicket(p) # {}
         THEN /\ zendesk' = [zendesk EXCEPT ![o].comments = @ + 1]
              /\ Respond(p, "SendCustomEmail", o, 200)
              /\ UNCHANGED <<now, call, shipengine, orders>>
         ELSE /\ zendesk' = [zendesk EXCEPT ![o].tickets = @ + 1]
              /\ procs' = [procs EXCEPT ![p].pc = "store",
                                        ![p].ticket = {NewTicketId}]
              /\ UNCHANGED <<now, call, shipengine, orders, resp>>

\* sendCustomEmailViaZendesk: the ticket id is stored on the order
SendCustomEmailStore(p) ==
    /\ At(p, "SendCustomEmail", "store")
    /\ UNCHANGED started
    /\ LET o == procs[p].id IN
         \* update(..., { merge: true }): the second argument holds no
         \* precondition
         /\ orders' = [orders EXCEPT ![o].zendeskTicketId = procs[p].ticket]
         /\ Respond(p, "SendCustomEmail", o, 200)
         /\ UNCHANGED <<now, call, shipengine, zendesk>>

\* POST /api/accept-offer-action: get
ApiAcceptOfferAction(p) ==
    /\ Begin(p)
    /\ \E o \in Orders \cup {0} :
         /\ IF o = 0
            THEN Respond(p, "ApiAcceptOfferAction", o, 400)
            ELSE IF ~orders[o].exists
            THEN Respond(p, "ApiAcceptOfferAction", o, 404)
            ELSE /\ procs' = [procs EXCEPT ![p] =
                       [Idle EXCEPT !.op = "ApiAcceptOfferAction", !.pc = "update",
                                    !.id = o,
                                    !.ticket = orders[o].zendeskTicketId]]
                 /\ UNCHANGED resp
         /\ UNCHANGED <<now, call, shipengine, orders, zendesk>>

\* POST /api/accept-offer-action: docRef.update
ApiAcceptOfferActionUpdate(p) ==
    /\ At(p, "ApiAcceptOfferAction", "update")
    /\ UNCHANGED started
    /\ LET o == procs[p].id IN
         /\ orders' = [orders EXCEPT
               ![o].status = "offer_accepted",
               ![o].acceptedAt = Fresh(orders[o].acceptedAt)]
         /\ IF procs[p].ticket # {}
            THEN procs' = [procs EXCEPT ![p].pc = "zendesk"] /\ UNCHANGED resp
            ELSE Respond(p, "ApiAcceptOfferAction", o, 200)
         /\ UNCHANGED <<now, call, shipengine, zendesk>>

\* POST /api/accept-offer-action: addCommentToZendeskTicket
ApiAcceptOfferActionZendesk(p) ==
    /\ At(p, "ApiAcceptOfferAction", "zendesk")
    /\ UNCHANGED started
    /\ LET o == procs[p].id IN
       \E sent \in BOOLEAN :
         IF ~sent
         THEN /\ Respond(p, "ApiAcceptOfferAction", o, 500)
              /\ UNCHANGED <<now, call, shipengine, orders, zendesk>>
         ELSE /\ zendesk' = [zendesk EXCEPT ![o].comments = @ + 1,
                                            ![o].accepted = @ + 1]
              /\ Respond(p, "ApiAcceptOfferAction", o, 200)
              /\ UNCHANGED <<now, call, shipengine, orders>>

\* POST /api/return-phone-action: get
ApiReturnPhoneAction(p) ==
    /\ Begin(p)
    /\ \E o \in Orders \cup {0} :
         /\ IF o = 0
            THEN Respond(p, "ApiReturnPhoneAction", o, 400)
            ELSE IF ~orders[o].exists
            THEN Respond(p, "ApiReturnPhoneAction", o, 404)
            ELSE /\ procs' = [procs EXCEPT ![p] =
                       [Idle EXCEPT !.op = "ApiReturnPhoneAction", !.pc = "update",
                                    !.id = o,
                                    !.ticket = orders[o].zendeskTicketId]]
                 /\ UNCHANGED resp
         /\ UNCHANGED <<now, call, shipengine, orders, zendesk>>

\* POST /api/return-phone-action: docRef.update
ApiReturnPhoneActionUpdate(p) ==
    /\ At(p, "ApiReturnPhoneAction", "update")
    /\ UNCHANGED started
    /\ LET o == procs[p].id IN
         /\ orders' = [orders EXCEPT
               ![o].status = "return_requested",
               ![o].returnRequestedAt = Fresh(orders[o].returnRequestedAt)]
         /\ IF procs[p].ticket # {}
            THEN procs' = [procs EXCEPT ![p].pc = "zendesk"] /\ UNCHANGED resp
            ELSE Respond(p, "ApiReturnPhoneAction", o, 200)
         /\ UNCHANGED <<now, call, shipengine, zendesk>>

\* POST /api/return-phone-action: addCommentToZendeskTicket
ApiReturnPhoneActionZendesk(p) ==
    /\ At(p, "ApiReturnPhoneAction", "zendesk")
    /\ UNCHANGED started
    /\ LET o == procs[p].id IN
       \E sent \in BOOLEAN :
         IF ~sent
         THEN /\ Respond(p, "ApiReturnPhoneAction", o, 500)
              /\ UNCHANGED <<now, call, shipengine, orders, zendesk>>
         ELSE /\ zendesk' = [zendesk EXCEPT ![o].comments = @ + 1,
                                            ![o].declined = @ + 1]
              /\ Respond(p, "ApiReturnPhoneAction", o, 200)
              /\ UNCHANGED <<now, call, shipengine, orders>>

NextC ==
    \/ \E p \in Procs : SubmitOrderC(p)
    \/ \E p \in Procs : PutReoffer(p)
    \/ \E p \in Procs : PutReofferInternal(p)
    \/ \E p \in Procs : PutReofferTicket(p)
    \/ \E p \in Procs : PutReofferStore(p)
    \/ \E p \in Procs : SendCustomEmail(p)
    \/ \E p \in Procs : SendCustomEmailZendesk(p)
    \/ \E p \in Procs : SendCustomEmailStore(p)
    \/ \E p \in Procs : ApiAcceptOfferAction(p)
    \/ \E p \in Procs : ApiAcceptOfferActionUpdate(p)
    \/ \E p \in Procs : ApiAcceptOfferActionZendesk(p)
    \/ \E p \in Procs : ApiReturnPhoneAction(p)
    \/ \E p \in Procs : ApiReturnPhoneActionUpdate(p)
    \/ \E p \in Procs : ApiReturnPhoneActionZendesk(p)

\* revision C
SpecC == Init /\ [][NextC]_vars

\* revision C serving one request at a time

NextSeqC ==
    \/ \E p \in Procs : Alone /\ SubmitOrderC(p)
    \/ \E p \in Procs : Alone /\ PutReoffer(p)
    \/ \E p \in Procs : PutReofferInternal(p)
    \/ \E p \in Procs : PutReofferTicket(p)
    \/ \E p \in Procs : PutReofferStore(p)
    \/ \E p \in Procs : Alone /\ SendCustomEmail(p)
    \/ \E p \in Procs : SendCustomEmailZendesk(p)
    \/ \E p \in Procs : SendCustomEmailStore(p)
    \/ \E p \in Procs : Alone /\ ApiAcceptOfferAction(p)
    \/ \E p \in Procs : ApiAcceptOfferActionUpdate(p)
    \/ \E p \in Procs : ApiAcceptOfferActionZendesk(p)
    \/ \E p \in Procs : Alone /\ ApiReturnPhoneAction(p)
    \/ \E p \in Procs : ApiReturnPhoneActionUpdate(p)
    \/ \E p \in Procs : ApiReturnPhoneActionZendesk(p)

SpecSeqC == Init /\ [][NextSeqC]_vars

\* ------------------------------------------------ swiftbuyback-backend
\* src/swiftbuyback-backend/index.js, its first server (lines 1-370).

\* POST /api/submit-order: dataToSave (userId plays no part here)
ApiSubmittedOrder(orderData) ==
    [SpreadOrderData(orderData) EXCEPT
        !.status = "pending_shipment",
        !.createdAt = Fresh({})]

\* authenticateToken, then POST /api/submit-order
ApiSubmitOrder(p) ==
    /\ Begin(p)
    /\ \E token \in {"none", "invalid", "valid"}, empty \in BOOLEAN,
          email \in BOOLEAN :
         IF token # "valid"
         THEN /\ Respond(p, "ApiSubmitOrder", 0,
                         IF token = "none" THEN 401 ELSE 403)
              /\ UNCHANGED <<now, call, shipengine, orders, zendesk>>
         ELSE IF empty
         THEN /\ Respond(p, "ApiSubmitOrder", 0, 400)
              /\ UNCHANGED <<now, call, shipengine, orders, zendesk>>
         ELSE /\ \E o \in Orders :
                   /\ ~orders[o].exists
                   /\ \A o2 \in Orders : o2 < o => orders[o2].exists
                   /\ orders' = [orders EXCEPT ![o] =
                          ApiSubmittedOrder(ClientOrderData(email))]
                   /\ Respond(p, "ApiSubmitOrder", o, 201)
              /\ UNCHANGED <<now, call, shipengine, zendesk>>

\* missingFields.length > 0
MissingFields(order) ==
    \/ order.shippingInfo.fullName = ""
    \/ order.shippingInfo.streetAddress = ""
    \/ order.shippingInfo.city = ""
    \/ order.shippingInfo.state = ""
    \/ order.shippingInfo.zipCode = ""
    \/ ~order.email

\* POST /api/generate-label/:orderId: get, validation, the tokens and the
\* label request to USPS
ApiGenerateLabel(p) ==
    /\ Begin(p)
    /\ \E o \in Orders, usps \in {"no token", "no label", "label"} :
         /\ IF ~orders[o].exists
            THEN Respond(p, "ApiGenerateLabel", o, 404)
            ELSE IF MissingFields(orders[o])
            THEN Respond(p, "ApiGenerateLabel", o, 400)
            ELSE IF usps = "no token"
            THEN Respond(p, "ApiGenerateLabel", o, 500)
            ELSE IF usps = "no label"
            THEN Respond(p, "ApiGenerateLabel", o, 502)
            ELSE Goto(p, "ApiGenerateLabel", "send", o) /\ UNCHANGED resp
         /\ UNCHANGED <<now, call, shipengine, orders, zendesk>>

\* POST /api/generate-label/:orderId: res.send(labelPdfBuffer)
ApiGenerateLabelSend(p) ==
    /\ At(p, "ApiGenerateLabel", "send")
    /\ UNCHANGED started
    /\ resp' = [op |-> "ApiGenerateLabel", id |-> procs[p].id, code |-> 200]
    /\ procs' = [procs EXCEPT ![p].pc = "update"]
    /\ UNCHANGED <<now, call, shipengine, orders, zendesk>>

\* 'https://placeholder.com/your-real-pdf-url', a URL no provider returned
PlaceholderUrl == {0}

\* POST /api/generate-label/:orderId: the document after orderDocRef.update
ApiLabelled(order) ==
    [order EXCEPT
        !.status = "label_generated",
        !.uspsLabelUrl = PlaceholderUrl,
        !.labelGeneratedAt = Fresh(order.labelGeneratedAt)]

\* POST /api/generate-label/:orderId: orderDocRef.update.  When it rejects,
\* the catch blocks call res.status(502).json and res.status(500).json on
\* the response that has been sent: both throw, the client keeps its 200.
ApiGenerateLabelUpdate(p) ==
    /\ At(p, "ApiGenerateLabel", "update")
    /\ UNCHANGED started
    /\ LET o == procs[p].id IN
       \E storeOk \in BOOLEAN :
         /\ orders' = IF storeOk /\ orders[o].exists
                      THEN [orders EXCEPT ![o] = ApiLabelled(orders[o])]
                      ELSE orders
         /\ procs' = [procs EXCEPT ![p] = Idle]
         /\ UNCHANGED <<now, call, shipengine, zendesk, resp>>

\* PUT /api/orders/:orderId/status
ApiUpdateStatus(p) ==
    /\ Begin(p)
    /\ \E o \in Orders, status \in StatusInputs :
         IF status = ""
         THEN /\ Respond(p, "ApiUpdateStatus", o, 400)
              /\ UNCHANGED <<now, call, shipengine, orders, zendesk>>
         ELSE IF ~orders[o].exists
         THEN /\ Respond(p, "ApiUpdateStatus", o, 500)
              /\ UNCHANGED <<now, call, shipengine, orders, zendesk>>
         ELSE /\ orders' = [orders EXCEPT ![o].status = status]
              /\ Respond(p, "ApiUpdateStatus", o, 200)
              /\ UNCHANGED <<now, call, shipengine, zendesk>>

NextBackend ==
    \/ \E p \in Procs : ApiSubmitOrder(p)
    \/ \E p \in Procs : ApiGenerateLabel(p)
    \/ \E p \in Procs : ApiGenerateLabelSend(p)
    \/ \E p \in Procs : ApiGenerateLabelUpdate(p)
    \/ \E p \in Procs : ApiUpdateStatus(p)

SpecBackend == Init /\ [][NextBackend]_vars

\* ================================================================ claims

\* the handler of slot p executes the write it awaits at pc "update"
Writes(p, op) == At(p, op, "update") /\ procs'[p] # procs[p]

\* the scheduler run of slot p executes orderRef.update for order o
SchedulerWrites(p, o) ==
    /\ At(p, "autoAcceptOffers", "map")
    /\ procs[p].stage[o] = "update"
    /\ procs'[p].stage[o] = "done"

\* C1: of a buyer accept and a scheduler run that race on the same expired
\* pending order only one performs its transition: the accept never writes
\* over the auto-accepted status the scheduler has written since the accept
\* read the order, and the scheduler never writes over the accepted status
\* the accept has written since the scheduler's query.
C1_AcceptAndSchedulerExclusive ==
    [][\A p \in Procs, o \in Orders :
          /\ (Writes(p, "AcceptOfferAction") /\ procs[p].id = o)
                => orders[o].status # "re-offered-auto-accepted"
          /\ SchedulerWrites(p, o)
                => orders[o].status # "re-offered-accepted"]_vars

\* C2: of two buyer resolution requests on the same pending order (accept
\* and decline, or two accepts) at most one writes a new status: a buyer
\* accept or decline never writes over the status another buyer accept or
\* decline has written since the handler read the order.
C2_AtMostOneResolutionWrites ==
    [][\A p \in Procs :
          (Writes(p, "AcceptOfferAction") \/ Writes(p, "ReturnPhoneAction"))
             => orders[procs[p].id].status
                   \notin {"re-offered-accepted", "re-offered-declined"}]_vars

\* the lifecycle state a stored status string stands for
Lifecycle(status) ==
    CASE status = "none" -> "none"
      [] status = "pending_shipment" -> "pending_shipment"
      [] status = "label_generated" -> "label_generated"
      [] status \in {"re-offered-pending", "re-offered"} -> "re-offer_pending"
      [] status \in {"re-offered-accepted", "offer_accepted"} -> "offer_accepted"
      [] status \in {"re-offered-declined", "return_requested"} -> "return_requested"
      [] status = "re-offered-auto-accepted" -> "auto_accepted"
      [] status \in {"return-label-generated", "return_label_generated"}
            -> "return_label_generated"
      [] OTHER -> "unknown"

\* the transition table, with the creation of the order as its first edge
TransitionTable ==
    {<<"none", "pending_shipment">>,
     <<"pending_shipment", "label_generated">>,
     <<"label_generated", "re-offer_pending">>,
     <<"re-offer_pending", "offer_accepted">>,
     <<"re-offer_pending", "return_requested">>,
     <<"re-offer_pending", "auto_accepted">>,
     <<"return_requested", "return_label_generated">>}

\* C3: every change of an order's status, by whatever operation, follows an
\* edge of the transition table (and so leads to a lifecycle value).
C3_StatusFollowsTable ==
    [][\A o \in Orders :
          orders'[o].status # orders[o].status =>
             <<Lifecycle(orders[o].status), Lifecycle(orders'[o].status)>>
                 \in TransitionTable]_vars

\* C4: whenever the scheduler writes auto-accepted to an order, the order is
\* in re-offered-pending at that moment and its current deadline has passed.
C4_SchedulerWritesOnlyExpiredPending ==
    [][\A p \in Procs, o \in Orders :
          SchedulerWrites(p, o)
          => /\ orders[o].status = "re-offered-pending"
             /\ \E r \in orders[o].reOffer : r.autoAcceptDate <= now]_vars

\* C5: scheduler runs, one after the other or overlapping, do not resolve an
\* order again: the scheduler never writes auto-accepted (and acceptedAt)
\* to an order that is in auto-accepted already.
C5_SchedulerRunsResolveOnce ==
    [][\A p \in Procs, o \in Orders :
          SchedulerWrites(p, o)
             => orders[o].status # "re-offered-auto-accepted"]_vars

\* C6: an accept takes effect only on an order that is in re-offer pending:
\* whenever a step sets acceptedAt and the accepted status, the status
\* before the step is the re-offer-pending one.
C6_AcceptOnlyFromPending ==
    [][\A o \in Orders :
          (/\ orders'[o].acceptedAt # orders[o].acceptedAt
           /\ Lifecycle(orders'[o].status) = "offer_accepted")
          => Lifecycle(orders[o].status) = "re-offer_pending"]_vars

\* C7: a decline takes effect only on an order that is in re-offer pending:
\* whenever a step sets returnRequestedAt and the return-requested status,
\* the status before the step is the re-offer-pending one.
C7_DeclineOnlyFromPending ==
    [][\A o \in Orders :
          (/\ orders'[o].returnRequestedAt # orders[o].returnRequestedAt
           /\ Lifecycle(orders'[o].status) = "return_requested")
          => Lifecycle(orders[o].status) = "re-offer_pending"]_vars

\* C8: with the buyer silent, the schedule firing again and again and time
\* passing, an order in re-offered-pending is eventually auto-accepted.
C8_PendingLeadsToAutoAccepted ==
    \A o \in Orders :
        (orders[o].status = "re-offered-pending")
            ~> (orders[o].status = "re-offered-auto-accepted")

\* C9: the thread id of an order, once set, never changes.
C9_ThreadIdSetOnce ==
    [][\A o \in Orders :
          orders[o].zendeskTicketId # {} =>
             orders'[o].zendeskTicketId = orders[o].zendeskTicketId]_vars

\* C10: with requests served one after the other, a custom email for an
\* order that already has a thread id (bound by an earlier custom email or
\* re-offer) opens no ticket, leaves the stored thread id as it is and ends
\* after appending one comment (or failing to); a custom email for an order
\* without a thread id opens exactly one ticket, and the id stored next is
\* the id of that ticket.
C10_ThreadBindingIdempotent ==
    [][\A p \in Procs :
          LET o == procs[p].id IN
          /\ (At(p, "SendCustomEmail", "zendesk") /\ procs'[p] # procs[p]) =>
               IF orders[o].zendeskTicketId # {}
               THEN /\ zendesk'[o].tickets = zendesk[o].tickets
                    /\ orders'[o].zendeskTicketId = orders[o].zendeskTicketId
                    /\ procs'[p] = Idle
                    /\ \/ zendesk'[o].comments = zendesk[o].comments + 1
                       \/ resp'.code = 500 /\ zendesk' = zendesk
               ELSE \/ resp'.code = 500 /\ zendesk' = zendesk /\ procs'[p] = Idle
                    \/ /\ zendesk'[o].tickets = zendesk[o].tickets + 1
                       /\ procs'[p].pc = "store"
                       /\ procs'[p].ticket = {NewTicketId}
          /\ (At(p, "SendCustomEmail", "store") /\ procs'[p] # procs[p]) =>
               /\ orders'[o].zendeskTicketId = procs[p].ticket
               /\ zendesk' = zendesk]_vars

\* two custom emails in a row have gone out for an order: one ticket, one
\* comment on it, and its id on the order
C10_Witness ==
    \E o \in Orders :
        /\ resp = [op |-> "SendCustomEmail", id |-> o, code |-> 200]
        /\ zendesk[o].tickets = 1 /\ zendesk[o].internal = 0
        /\ zendesk[o].comments = 1
        /\ orders[o].zendeskTicketId = {1}

\* C11: two custom emails that overlap on an order without a thread never
\* open two tickets: a custom email opens a ticket only while the order has
\* no thread id and no other custom email of that order has opened a ticket
\* whose id it is about to store.
C11_ConcurrentBindingOneThread ==
    [][\A p \in Procs :
          (At(p, "SendCustomEmail", "zendesk") /\ procs'[p].pc = "store") =>
             LET o == procs[p].id IN
             /\ orders[o].zendeskTicketId = {}
             /\ \A q \in Procs \ {p} :
                   ~(At(q, "SendCustomEmail", "store") /\ procs[q].id = o)]_vars

\* C12: no two stored orders share a customOrderId.
C12_OrderNumbersUnique ==
    \A o1 \in Stored, o2 \in Stored :
        o1 # o2 => orders[o1].customOrderId # orders[o2].customOrderId

\* C13: the order-number generator always terminates: a submission that has
\* started ends with a response (201 with an order created, or 500).
C13_GeneratorTerminates ==
    \A p \in Procs :
        (procs[p].op = "SubmitOrderNumbered") ~> (procs[p].op = "idle")

\* C14: generate label takes effect only on an order in pending_shipment:
\* whenever a step stores a shipping label on an order (and with it the
\* status label_generated), the order's status before the step is
\* pending_shipment.
C14_LabelOnlyFromPendingShipment ==
    [][\A o \in Orders :
          orders'[o].uspsLabelUrl # orders[o].uspsLabelUrl
             => orders[o].status = "pending_shipment"]_vars

\* C15: generate return label takes effect only on an order in return
\* requested: whenever a step stores a return label or moves an order to
\* return-label-generated, the order's status before the step is the
\* return-requested one.
C15_ReturnLabelOnlyFromReturnRequested ==
    [][\A o \in Orders :
          (\/ orders'[o].returnLabelUrl # orders[o].returnLabelUrl
           \/ /\ orders'[o].status # orders[o].status
              /\ Lifecycle(orders'[o].status) = "return_label_generated")
          => Lifecycle(orders[o].status) = "return_requested"]_vars

\* C16: a re-offer is stored only on an order in label_generated and only
\* with a price above zero: whenever a step changes the reOffer record of an
\* order, the status before the step is label_generated and the price
\* stored is not negative.
C16_ReOfferPreconditions ==
    [][\A o \in Orders :
          orders'[o].reOffer # orders[o].reOffer
             => /\ orders[o].status = "label_generated"
                /\ \A r \in orders'[o].reOffer : r.newPrice # "negative"]_vars

\* C17: offer accepted, auto-accepted and return label generated are
\* terminal: no step changes the status of an order that is in one of them.
C17_TerminalStatuses ==
    [][\A o \in Orders :
          Lifecycle(orders[o].status)
              \in {"offer_accepted", "auto_accepted", "return_label_generated"}
             => orders'[o].status = orders[o].status]_vars

\* C18: the scheduler posts the auto-acceptance comment of an order only
\* after the order's status has been written as auto-accepted.
C18_CommentAfterStatusWrite ==
    [][\A o \in Orders :
          zendesk'[o].auto # zendesk[o].auto
             => orders[o].status = "re-offered-auto-accepted"]_vars

\* C19: when the ticket call of a re-offer, an accept or a decline fails
\* after the status write, the handler answers 502 and the order is left as
\* written.
C19_UpstreamFailureSurfaced ==
    [][\A p \in Procs :
          (/\ \/ At(p, "PostReOffer", "zendesk")
              \/ At(p, "AcceptOfferAction", "zendesk")
              \/ At(p, "ReturnPhoneAction", "zendesk")
           /\ procs'[p] # procs[p]
           /\ zendesk' = zendesk)
          => /\ resp'.code = 502
             /\ orders' = orders]_vars

\* C20: within one scheduler run the expired orders are resolved
\* independently: a run does not end while the callback of an order it has
\* selected is still on its way to the update of that order.
C20_RunResolvesOrdersIndependently ==
    [][\A p \in Procs :
          (At(p, "autoAcceptOffers", "map") /\ procs'[p] = Idle)
             => \A o \in Orders :
                   procs[p].stage[o] \notin {"zendesk", "update"}]_vars

\* the five customer shipping fields are non-empty; the postal code is read
\* from the field the order is stored with
ShippingComplete(shippingInfo) ==
    /\ shippingInfo.fullName # ""
    /\ shippingInfo.streetAddress # ""
    /\ shippingInfo.city # ""
    /\ shippingInfo.state # ""
    /\ (shippingInfo.zipCode # "" \/ shippingInfo.postalCode # "")

\* C21: a label function applied to an order with a missing customer
\* shipping field (name, street, city, state, postal code) does not call the
\* label provider and leaves the order as it was; applied to an order with
\* all five fields it passes the validation and calls the provider.
C21_LabelValidation ==
    [][\A o \in Labelled :
          resp'.id = o =>
             /\ orders'[o] = orders[o]
             /\ IF ShippingComplete(orders[o].shippingInfo)
                THEN \E request \in shipengine'[o] : request.fn = resp'.op
                ELSE shipengine'[o] = shipengine[o]]_vars

\* the street line of a party of a label request, in either spelling
Street(party) ==
    IF "address_line1" \in DOMAIN party
    THEN party.address_line1 ELSE party.addressLine1

\* the party carries the customer's name and street
IsCustomer(party, shippingInfo) ==
    /\ party.name = shippingInfo.fullName
    /\ Street(party) = shippingInfo.streetAddress

\* the party is the fixed address of the business
IsBusiness(party) ==
    /\ party.name \in {"SwiftBuyBack Returns", "SwiftBuyBack"}
    /\ Street(party) \in {"1795 West 3rd St", "1795 west 3rd st"}

C22_LabelsWriteOnce ==
    [][\A o \in Orders :
          /\ orders[o].uspsLabelUrl # {} =>
                /\ orders'[o].uspsLabelUrl = orders[o].uspsLabelUrl
                /\ orders'[o].trackingNumber = orders[o].trackingNumber
          /\ orders[o].returnLabelUrl # {} =>
                /\ orders'[o].returnLabelUrl = orders[o].returnLabelUrl
                /\ orders'[o].returnTrackingNumber = orders[o].returnTrackingNumber]_vars

\* C24: the outbound and the return label fields are independent: a step
\* that stores a return label leaves the outbound label URL and tracking
\* number as they were, and a step that stores an outbound label leaves the
\* return label URL and tracking number as they were.
C24_LabelFieldsIndependent ==
    [][\A o \in Orders :
          /\ (\/ orders'[o].returnLabelUrl # orders[o].returnLabelUrl
              \/ orders'[o].returnTrackingNumber # orders[o].returnTrackingNumber)
             => /\ orders'[o].uspsLabelUrl = orders[o].uspsLabelUrl
                /\ orders'[o].trackingNumber = orders[o].trackingNumber
          /\ (\/ orders'[o].uspsLabelUrl # orders[o].uspsLabelUrl
              \/ orders'[o].trackingNumber # orders[o].trackingNumber)
             => /\ orders'[o].returnLabelUrl = orders[o].returnLabelUrl
                /\ orders'[o].returnTrackingNumber = orders[o].returnTrackingNumber]_vars

\* a return label has just been stored on an order that has an outbound
\* label
C24_Witness ==
    \E o \in Orders :
       /\ orders[o].uspsLabelUrl = {2}
       /\ orders[o].returnLabelUrl = {1}
       /\ resp.op = "ReturnLabel" /\ resp.id = o

\* C25: once an order has a re-offer with its auto-accept date, the only
\* step that changes it is a fresh re-offer: accept, decline, the scheduler,
\* label generation and status update leave it as it is.
C25_DeadlineMovedOnlyByReOffer ==
    [][\A o \in Orders :
          (orders[o].reOffer # {} /\ orders'[o].reOffer # orders[o].reOffer)
          => \E p \in Procs : PostReOffer(p)]_vars

\* a re-offered order that has since been accepted (by the buyer or by the
\* scheduler) and has had a label generated, its re-offer still in place
C25_Witness ==
    \E o \in Orders :
       /\ orders[o].reOffer # {}
       /\ orders[o].acceptedAt # {}
       /\ orders[o].uspsLabelUrl # {}

\* C26: the update of a successful re-offer sets the status to re-offer
\* pending and, with it, a re-offer record whose auto-resolve deadline is the
\* time of the re-offer plus seven days; so does PUT /orders/:id/reoffer.
C26_ReofferStoresDeadline ==
    [][\A p \in Procs :
          (PutReoffer(p) /\ procs'[p].pc = "internal")
          => LET o == procs'[p].id IN
               /\ orders'[o].status = "re-offered-pending"
               /\ \E r \in orders'[o].reOffer :
                     r.autoAcceptDate = now + AutoAcceptWindow]_vars

\* C27: an event timestamp of an order (acceptedAt, declinedAt,
\* returnRequestedAt) that has been set is never overwritten, whatever
\* operations follow.
C27_TimestampsSetOnce ==
    [][\A o \in Orders :
          /\ orders[o].acceptedAt # {} =>
                orders'[o].acceptedAt = orders[o].acceptedAt
          /\ orders[o].declinedAt # {} =>
                orders'[o].declinedAt = orders[o].declinedAt
          /\ orders[o].returnRequestedAt # {} =>
                orders'[o].returnRequestedAt = orders[o].returnRequestedAt]_vars

\* C28: a request with a validation error mutates nothing: a request
\* answered with 400 leaves every order as it was, and an update-status
\* request never stores a status that is not one of the lifecycle values.
C28_ValidationErrorMutatesNothing ==
    [][/\ (started' # started /\ resp'.code = 400 /\ resp' # resp)
             => orders' = orders
       /\ \A p \in Procs : UpdateStatus(p) =>
             \A o \in Orders :
                orders'[o].status # orders[o].status
                => Lifecycle(orders'[o].status) # "unknown"]_vars

\* C29: a request addressed to an id under which no order is stored is
\* answered with 404 (or with 400 when its body is invalid as well) and
\* leaves every order as it was.
C29_UnknownIdNotFound ==
    [][\A o \in Orders :
          (/\ started' # started
           /\ resp' # resp
           /\ resp'.op # "SubmitOrder"
           /\ resp'.id = o
           /\ ~orders[o].exists)
          => /\ resp'.code \in {400, 404}
             /\ orders' = orders]_vars

\* C30: the decline scenario runs end to end, each step producing the
\* stated status in the state the previous one left: a label generated for a
\* pending_shipment order makes it label_generated with its label URL set; a
\* re-offer on that order makes it re-offer pending with a deadline; the
\* buyer's decline of the pending re-offer makes it return_requested; a
\* return label for that order makes it return_label_generated with
\* returnLabelUrl set and the original label URL unchanged.
C30_DeclineScenario ==
    [][\A p \in Procs, o \in Orders :
          orders'[o] # orders[o] =>
             /\ (GenerateLabel(p) /\ orders[o].status = "pending_shipment")
                => /\ Lifecycle(orders'[o].status) = "label_generated"
                   /\ orders'[o].uspsLabelUrl # {}
             /\ (PostReOffer(p) /\ orders[o].status = "label_generated")
                => /\ Lifecycle(orders'[o].status) = "re-offer_pending"
                   /\ \E r \in orders'[o].reOffer :
                         r.autoAcceptDate = now + AutoAcceptWindow
             /\ (ReturnPhoneActionUpdate(p) /\ orders[o].status = "re-offered-pending")
                => Lifecycle(orders'[o].status) = "return_requested"
             /\ (ReturnLabel(p) /\ Lifecycle(orders[o].status) = "return_requested")
                => /\ Lifecycle(orders'[o].status) = "return_label_generated"
                   /\ orders'[o].returnLabelUrl # {}
                   /\ orders'[o].uspsLabelUrl = orders[o].uspsLabelUrl]_vars

\* the end of the scenario: an order labelled once, re-offered once, declined
\* by the buyer and given its return label
C30_Witness ==
    \E o \in Orders :
       /\ orders[o].status = "return-label-generated"
       /\ orders[o].uspsLabelUrl = {1}
       /\ orders[o].reOffer = {[newPrice |-> "positive",
                                autoAcceptDate |-> AutoAcceptWindow]}
       /\ orders[o].declinedAt = {1}
       /\ orders[o].acceptedAt = {}
       /\ orders[o].returnLabelUrl = {1}
       /\ resp = [op |-> "ReturnLabel", id |-> o, code |-> 200]
       /\ started = 5

\* C31: in the no-response scenario an order that has ended auto-accepted
\* has acceptedAt set and exactly one comment recording the automatic
\* resolution has been recorded for it.
C31_NoResponseOneComment ==
    \A o \in Orders :
       orders[o].status = "re-offered-auto-accepted"
       => /\ orders[o].acceptedAt # {}
          /\ zendesk[o].auto = 1

\* C32: whatever Math.random() returns, the integer the generator draws lies
\* between 10000 and 99999 and the order number made of it has the shape
\* NN-NNN: two decimal digits, a hyphen, three decimal digits.
C32_OrderNumberShape ==
    /\ \A x \in call.input : DrawnNumber(x) \in 10000..99999
    /\ \A orderNumber \in call.output :
          /\ Len(orderNumber) = 6
          /\ orderNumber[3] = "-"
          /\ \A i \in {1, 2, 4, 5, 6} :
                \E d \in 1..10 : orderNumber[i] = DecimalDigits[d]

\* the largest draw has been made into its order number
C32_Witness ==
    /\ call.input = {RandomScale - 1}
    /\ call.output = {<<"9", "9", "-", "9", "9", "9">>}

\* C33: whatever the body carries, the order a successful submission stores
\* has status pending_shipment, a createdAt set by the server and an order
\* number generated by the server; a status, customOrderId or createdAt of
\* the body never takes their place.
C33_ServerAssignedFields ==
    \A answer \in call.output :
       (call.fn \in {"SubmittedOrder", "SubmittedOrderC"} /\ answer.code = 201)
       => /\ answer.document.status = "pending_shipment"
          /\ answer.document.createdAt = Fresh({})
          /\ answer.document.customOrderId # {}
          /\ answer.document.customOrderId \subseteq OrderNumbers

\* C34: a successful generate label sets, together with the status
\* label_generated, the label URL, the tracking number and labelGeneratedAt.
C34_LabelFieldsSetTogether ==
    [][\A p \in Procs, o \in Orders :
          (GenerateLabel(p) /\ resp'.id = o /\ resp'.code = 200)
          => /\ orders'[o].status = "label_generated"
             /\ orders'[o].uspsLabelUrl # {}
             /\ orders'[o].trackingNumber # {}
             /\ orders'[o].labelGeneratedAt # {}]_vars

\* C35: after creation no operation changes an order's number, and none
\* changes its shippingInfo once the order has left pending_shipment: label
\* generation, re-offer, accept, decline, the scheduler and status update
\* leave customOrderId and shippingInfo as they are.
C35_NumberAndShippingInfoKept ==
    [][\A o \in Orders :
          orders[o].exists =>
             /\ orders'[o].customOrderId = orders[o].customOrderId
             /\ Lifecycle(orders[o].status) \notin {"none", "pending_shipment"}
                => orders'[o].shippingInfo = orders[o].shippingInfo]_vars

\* an order that has been labelled, re-offered and accepted and has just had
\* its status updated, with the number and shippingInfo of its submission
C35_Witness ==
    \E o \in Orders :
       /\ orders[o].customOrderId # {}
       /\ orders[o].shippingInfo = ZipShippingInfo
       /\ orders[o].uspsLabelUrl # {}
       /\ orders[o].reOffer # {}
       /\ orders[o].acceptedAt # {}
       /\ resp = [op |-> "UpdateStatus", id |-> o, code |-> 200]

\* C36: an order the buyer has declined is never auto-accepted: the
\* scheduler neither writes auto-accepted over the declined status nor sends
\* its auto-acceptance comment for such an order.
C36_DeclinedNeverAutoAccepted ==
    [][\A o \in Orders :
          orders[o].status = "re-offered-declined"
          => /\ orders'[o].status # "re-offered-auto-accepted"
             /\ zendesk'[o].auto = zendesk[o].auto]_vars

\* C37: for one re-offer of one order at most one resolution notice reaches
\* the ticketing provider, over accept, decline and the scheduler together.
C37_OneResolutionNotice ==
    \A o \in Orders :
       orders[o].reOffer # {}
       => zendesk[o].accepted + zendesk[o].declined + zendesk[o].auto <= 1

\* C38: a success response is sent only after the store write has
\* committed: when generate label answers with success, the order read
\* after the response shows the new status and label fields.
C38_SuccessAfterWrite ==
    [][\A o \in Orders :
          (/\ resp' # resp
           /\ resp' = [op |-> "ApiGenerateLabel", id |-> o, code |-> 200])
          => /\ orders'[o].status = "label_generated"
             /\ orders'[o].uspsLabelUrl # {}
             /\ orders'[o].labelGeneratedAt # {}]_vars

\* C39: an order whose status is re-offer pending has a re-offer record with
\* a new price and an auto-resolve deadline, whatever operation put it there.
C39_PendingHasReOffer ==
    \A o \in Orders :
       orders[o].status = "re-offered-pending"
       => \E r \in orders[o].reOffer :
             /\ r.newPrice \in NewPriceInputs
             /\ r.autoAcceptDate \in 0..(MaxTime + AutoAcceptWindow)

====
